---- MODULE Spec2Model ----
(***************************************************************************)
(* Model of TokenERC20Contract (src/tokenERC20.js), a Hyperledger Fabric   *)
(* chaincode that keeps an ERC20-like token in the ledger's world state.   *)
(*                                                                         *)
(* The world state is the variable `store`; every contract method is an    *)
(* operator from (store, caller, arguments) to an outcome, and one action  *)
(* per method commits the outcome the way the host ledger does: the writes *)
(* of an invocation that throws are discarded.                             *)
(*                                                                         *)
(* Strings (byte buffers, arguments, addresses) are sequences of           *)
(* one-character strings, so that parseInt and toString are computed on    *)
(* characters.  A JavaScript number is a record [nan, v]: NaN or an        *)
(* integer.  All inputs are small, so every number stays far inside the    *)
(* range in which IEEE doubles are exact integers.                         *)
(***************************************************************************)
EXTENDS Integers, Sequences, FiniteSets, TLC

VARIABLES store, last

vars == <<store, last>>

(***************************************************************************)
(* Bounds                                                                  *)
(***************************************************************************)
\* number of history records kept in the store, all accounts together
MaxHist == 2
\* the same, in the specification of the transaction history (SpecHistory)
MaxLongHist == 4

(***************************************************************************)
(* Program constants (src/tokenERC20.js)                                   *)
(***************************************************************************)
\* the organisation allowed to initialize, mint and burn
Org1MSP == <<"O", "r", "g", "1", "M", "S", "P">>
Org2MSP == <<"O", "r", "g", "2", "M", "S", "P">>
\* the `from` of the records written by setAdminTransactionData
admin == <<"a", "d", "m", "i", "n">>
\* the counterparty of the Transfer events of Mint and Burn
NullAddress == <<"0", "x", "0">>

(***************************************************************************)
(* Inputs                                                                  *)
(***************************************************************************)
\* account addresses; "a" and "b" are also the IDs of the two callers
Accounts == {<<"a">>, <<"b">>, <<"c">>}
\* a caller is (ctx.clientIdentity.getID(), ctx.clientIdentity.getMSPID())
Callers == {[id |-> <<"a">>, msp |-> Org1MSP], [id |-> <<"b">>, msp |-> Org2MSP]}
\* the string arguments `value` / `amount`
Amounts == {<<"0">>, <<"1">>, <<"-", "1">>, <<"x">>}
Names == {<<>>, <<"T">>}
Symbols == {<<"S">>, <<"R">>}
DecimalsArgs == {<<"2">>}
\* ctx.stub.getTxTimestamp().array[0]: the seconds of the transaction timestamp
Times == {7}

(***************************************************************************)
(* JavaScript numbers                                                      *)
(***************************************************************************)
NaN == [nan |-> TRUE, v |-> 0]
Num(i) == [nan |-> FALSE, v |-> i]

\* a + b
JsAdd(a, b) == IF a.nan \/ b.nan THEN NaN ELSE Num(a.v + b.v)
\* a - b
JsSub(a, b) == IF a.nan \/ b.nan THEN NaN ELSE Num(a.v - b.v)
\* a < b   (false when either side is NaN)
JsLt(a, b) == ~a.nan /\ ~b.nan /\ a.v < b.v
\* a <= b  (false when either side is NaN)
JsLe(a, b) == ~a.nan /\ ~b.nan /\ a.v <= b.v
\* a !== b (true when either side is NaN)
JsStrictNeq(a, b) == a.nan \/ b.nan \/ a.v # b.v

(***************************************************************************)
(* Strings: parseInt, Number.prototype.toString, Object.prototype.toString *)
(***************************************************************************)
DigitChars == <<"0", "1", "2", "3", "4", "5", "6", "7", "8", "9">>
IsDigit(c) == \E i \in 1..10 : DigitChars[i] = c
DigitVal(c) == (CHOOSE i \in 1..10 : DigitChars[i] = c) - 1

\* length of the longest prefix of s made of decimal digits
RECURSIVE DigitPrefixLen(_)
DigitPrefixLen(s) ==
    IF s = <<>> \/ ~IsDigit(Head(s)) THEN 0 ELSE 1 + DigitPrefixLen(Tail(s))

\* value of a sequence of decimal digits
RECURSIVE DigitsValue(_)
DigitsValue(s) ==
    IF s = <<>> THEN 0
    ELSE 10 * DigitsValue(SubSeq(s, 1, Len(s) - 1)) + DigitVal(s[Len(s)])

\* parseInt(s): optional sign, then the longest run of digits; NaN if none
parseInt(s) ==
    LET signed == s # <<>> /\ Head(s) \in {"-", "+"}
        body == IF signed THEN Tail(s) ELSE s
        n == DigitPrefixLen(body)
        m == DigitsValue(SubSeq(body, 1, n))
    IN  IF n = 0 THEN NaN
        ELSE IF signed /\ Head(s) = "-" THEN Num(0 - m) ELSE Num(m)

\* decimal digits of a natural number
RECURSIVE NatToString(_)
NatToString(n) ==
    IF n < 10 THEN <<DigitChars[n + 1]>>
    ELSE NatToString(n \div 10) \o <<DigitChars[(n % 10) + 1]>>

\* x.toString() for a number x
NumberToString(x) ==
    IF x.nan THEN <<"N", "a", "N">>
    ELSE IF x.v < 0 THEN <<"-">> \o NatToString(0 - x.v)
    ELSE NatToString(x.v)

\* p.toString() for a Promise p: Object.prototype.toString, whatever p settles to
PromiseToString(p) ==
    <<"[", "o", "b", "j", "e", "c", "t", " ", "P", "r", "o", "m", "i", "s", "e", "]">>

\* `await p`: the value of a fulfilled promise (a rejected one throws)
Await(p) == p.value
Rejected(p) == p.state = "rejected"

(***************************************************************************)
(* Arithmetic Guard: async add / async sub return promises                 *)
(***************************************************************************)
add(a, b) ==
    LET c == JsAdd(a, b)
    IN  IF JsStrictNeq(a, JsSub(c, b)) \/ JsStrictNeq(b, JsSub(c, a))
        THEN [state |-> "rejected", value |-> NaN]
        ELSE [state |-> "fulfilled", value |-> c]

sub(a, b) ==
    LET c == JsSub(a, b)
    IN  IF JsStrictNeq(a, JsAdd(c, b)) \/ JsStrictNeq(b, JsSub(a, c))
        THEN [state |-> "rejected", value |-> NaN]
        ELSE [state |-> "fulfilled", value |-> c]

(***************************************************************************)
(* World state.  getState of a key that was never written (or was written  *)
(* with an empty value) yields a zero-length buffer, which is how the      *)
(* contract recognises an absent record.                                   *)
(***************************************************************************)
NoBytes == <<>>
Absent(bytes) == Len(bytes) = 0

EmptyStore ==
    [name |-> NoBytes, symbol |-> NoBytes, decimals |-> NoBytes,
     totalSupply |-> NoBytes,
     balance |-> [a \in Accounts |-> NoBytes],
     transactionData |-> [a \in Accounts |-> <<>>]]

\* putState(createCompositeKey(balancePrefix, [addr]), bytes)
PutBalance(st, addr, bytes) ==
    [st EXCEPT !.balance = [@ EXCEPT ![addr] = bytes]]

\* outcome of an invocation: err = "" on success; st = the store with the
\* invocation's writes; ret = the returned value; ev = the events set by
\* ctx.stub.setEvent, in order.
\* The st, ret and ev of a failed invocation are never used.
NoEvent == <<>>
Ok(st, ret, ev) == [err |-> "", st |-> st, ret |-> ret, ev |-> ev]
Fail(e) == [err |-> e, st |-> EmptyStore, ret |-> <<>>, ev |-> NoEvent]
True == <<"t", "r", "u", "e">>

\* CheckInitialized: throws when no name is stored
Initialized(st) == ~Absent(st.name)

(***************************************************************************)
(* Transaction Ledger (history).  The stored JSON array is modelled as the *)
(* sequence of its records; a key with no record holds no value.           *)
(***************************************************************************)
TxTime(time) == NumberToString(Num(time))

\* mutation: the new record put in front (unshift)
PushFront(transactionData, newTransactionData) ==
    <<newTransactionData>> \o transactionData
\* transactionData.push(newTransactionData)
Push(transactionData, newTransactionData) ==
    Append(transactionData, newTransactionData)

setFromTransactionData(st, from, to, value, time) ==
    IF ~Initialized(st) THEN Fail("NotInitialized")
    ELSE LET transactionData == st.transactionData[from]
             newTransactionData ==
                 [from |-> from, to |-> to, value |-> value, time |-> TxTime(time)]
         IN  IF Len(transactionData) = 0
             THEN Ok([st EXCEPT !.transactionData[from] = <<newTransactionData>>],
                     True, NoEvent)
             ELSE Ok([st EXCEPT !.transactionData[from] =
                                    Push(transactionData, newTransactionData)],
                     True, NoEvent)

setToTransactionData(st, from, to, value, time) ==
    IF ~Initialized(st) THEN Fail("NotInitialized")
    ELSE LET transactionData == st.transactionData[to]
             newTransactionData ==
                 [from |-> from, to |-> to, value |-> value, time |-> TxTime(time)]
         IN  IF Len(transactionData) = 0
             THEN Ok([st EXCEPT !.transactionData[to] = <<newTransactionData>>],
                     True, NoEvent)
             ELSE Ok([st EXCEPT !.transactionData[to] =
                                    Push(transactionData, newTransactionData)],
                     True, NoEvent)

\* declared with the parameters (ctx, to, value)
setAdminTransactionData(st, to, value, time) ==
    IF ~Initialized(st) THEN Fail("NotInitialized")
    ELSE LET transactionData == st.transactionData[to]
             newTransactionData ==
                 [from |-> admin, to |-> to, value |-> value, time |-> TxTime(time)]
         IN  IF Len(transactionData) = 0
             THEN Ok([st EXCEPT !.transactionData[to] = <<newTransactionData>>],
                     True, NoEvent)
             ELSE Ok([st EXCEPT !.transactionData[to] =
                                    Push(transactionData, newTransactionData)],
                     True, NoEvent)

getTransactionData(st, userAddress) ==
    IF ~Initialized(st) THEN Fail("NotInitialized")
    ELSE IF Len(st.transactionData[userAddress]) = 0 THEN Fail("NoHistory")
    ELSE Ok(st, st.transactionData[userAddress], NoEvent)

(***************************************************************************)
(* Account Registry                                                        *)
(***************************************************************************)
signup(st, userAddress) ==
    IF ~Initialized(st) THEN Fail("NotInitialized")
    ELSE LET userCurrentBalanceBytes == st.balance[userAddress]
             userCurrentBalance ==
                 IF Absent(userCurrentBalanceBytes) THEN Num(0)
                 ELSE parseInt(userCurrentBalanceBytes)
         IN  Ok(PutBalance(st, userAddress, NumberToString(userCurrentBalance)),
                True, NoEvent)

BalanceOf(st, owner) ==
    IF ~Initialized(st) THEN Fail("NotInitialized")
    ELSE IF Absent(st.balance[owner]) THEN Fail("AccountNotFound")
    ELSE Ok(st, parseInt(st.balance[owner]), NoEvent)

ClientAccountBalance(st, caller) ==
    IF ~Initialized(st) THEN Fail("NotInitialized")
    ELSE IF Absent(st.balance[caller.id]) THEN Fail("AccountNotFound")
    ELSE Ok(st, parseInt(st.balance[caller.id]), NoEvent)

ClientAccountID(st, caller) ==
    IF ~Initialized(st) THEN Fail("NotInitialized")
    ELSE Ok(st, caller.id, NoEvent)

(***************************************************************************)
(* Metadata Manager                                                        *)
(***************************************************************************)
\* mutation: the organisation test left out
NotAuthorizedOmitted(clientMSPID) == FALSE
\* if (clientMSPID !== 'Org1MSP'), the same text in Initialize, Mint and Burn
NotAuthorized(clientMSPID) == clientMSPID # Org1MSP

Initialize(st, caller, name, symbol, decimals) ==
    IF NotAuthorized(caller.msp) THEN Fail("Unauthorized")
    ELSE IF Len(st.name) > 0 THEN Fail("AlreadyInitialized")
    ELSE Ok([st EXCEPT !.name = name, !.symbol = symbol, !.decimals = decimals],
            True, NoEvent)

TokenName(st) ==
    IF ~Initialized(st) THEN Fail("NotInitialized")
    ELSE Ok(st, st.name, NoEvent)

Symbol(st) ==
    IF ~Initialized(st) THEN Fail("NotInitialized")
    ELSE Ok(st, st.symbol, NoEvent)

Decimals(st) ==
    IF ~Initialized(st) THEN Fail("NotInitialized")
    ELSE Ok(st, parseInt(st.decimals), NoEvent)

TotalSupply(st) ==
    IF ~Initialized(st) THEN Fail("NotInitialized")
    ELSE Ok(st, parseInt(st.totalSupply), NoEvent)

(***************************************************************************)
(* Transfer Engine.  The four tests below are written once; Transfer and   *)
(* TransferFrom contain the same text (TransferFrom at lines 209, 216, 232  *)
(* and 242).                                                               *)
(***************************************************************************)
\* Each test is preceded by its mutation: the test left out of the method.
SameAccountOmitted(from, to) == FALSE
\* if (from === to)
SameAccount(from, to) == from = to

NegativeAmountOmitted(valueInt) == FALSE
\* if (valueInt < 0)
NegativeAmount(valueInt) == JsLt(valueInt, Num(0))

InsufficientFundsOmitted(fromCurrentBalance, valueInt) == FALSE
\* if (fromCurrentBalance < valueInt)
InsufficientFunds(fromCurrentBalance, valueInt) == JsLt(fromCurrentBalance, valueInt)

NoSignupOmitted(toCurrentBalanceBytes) == FALSE
\* if (!toCurrentBalanceBytes || toCurrentBalanceBytes.length === 0)
NoSignup(toCurrentBalanceBytes) == Absent(toCurrentBalanceBytes)

Transfer(st, caller, to, value, time) ==
    IF ~Initialized(st) THEN Fail("NotInitialized")
    ELSE
    LET clientAccountID == caller.id
        valueInt == parseInt(value)
    IN
    IF NegativeAmount(valueInt) THEN Fail("InvalidAmount")
    ELSE
    LET fromCurrentBalanceBytes == st.balance[clientAccountID] IN
    IF Absent(fromCurrentBalanceBytes) THEN Fail("SourceAccountNotFound")
    ELSE
    LET fromCurrentBalance == parseInt(fromCurrentBalanceBytes) IN
    IF InsufficientFunds(fromCurrentBalance, valueInt) THEN Fail("InsufficientFunds")
    ELSE
    LET toCurrentBalanceBytes == st.balance[to] IN
    IF NoSignup(toCurrentBalanceBytes) THEN Fail("DestinationNotSignedUp")
    ELSE
    LET toCurrentBalance == parseInt(toCurrentBalanceBytes)
        fromUpdatedBalance == sub(fromCurrentBalance, valueInt)
    IN
    IF Rejected(fromUpdatedBalance) THEN Fail("ArithmeticUnderflow")
    ELSE
    LET toUpdatedBalance == add(toCurrentBalance, valueInt) IN
    IF Rejected(toUpdatedBalance) THEN Fail("ArithmeticOverflow")
    ELSE
    LET st1 == PutBalance(st, clientAccountID,
                          NumberToString(Await(fromUpdatedBalance)))
        st2 == PutBalance(st1, to, NumberToString(Await(toUpdatedBalance)))
    IN  \* called as setAdminTransactionData(ctx, clientAccountID, to, value):
        \* the callee's three parameters receive (ctx, clientAccountID, to)
        setAdminTransactionData(st2, clientAccountID, to, time)

TransferFrom(st, from, to, value, time) ==
    IF SameAccount(from, to) THEN Fail("SelfTransferRejected")
    ELSE
    LET valueInt == parseInt(value) IN
    IF NegativeAmount(valueInt) THEN Fail("InvalidAmount")
    ELSE
    LET fromCurrentBalanceBytes == st.balance[from] IN
    IF Absent(fromCurrentBalanceBytes) THEN Fail("SourceAccountNotFound")
    ELSE
    LET fromCurrentBalance == parseInt(fromCurrentBalanceBytes) IN
    IF InsufficientFunds(fromCurrentBalance, valueInt) THEN Fail("InsufficientFunds")
    ELSE
    LET toCurrentBalanceBytes == st.balance[to] IN
    IF NoSignup(toCurrentBalanceBytes) THEN Fail("DestinationNotSignedUp")
    ELSE
    LET toCurrentBalance == parseInt(toCurrentBalanceBytes)
        fromUpdatedBalance == sub(fromCurrentBalance, valueInt)
    IN
    IF Rejected(fromUpdatedBalance) THEN Fail("ArithmeticUnderflow")
    ELSE
    LET toUpdatedBalance == add(toCurrentBalance, valueInt) IN
    IF Rejected(toUpdatedBalance) THEN Fail("ArithmeticOverflow")
    ELSE
    LET st1 == PutBalance(st, from, NumberToString(Await(fromUpdatedBalance)))
        st2 == PutBalance(st1, to, NumberToString(Await(toUpdatedBalance)))
        h1 == setFromTransactionData(st2, from, to, value, time)
    IN  IF h1.err # "" THEN h1
        ELSE setToTransactionData(h1.st, from, to, value, time)

\* mutation: only the owner of the source account may move its tokens
TransferFromByOwnerOnly(st, caller, from, to, value, time) ==
    IF caller.id # from THEN Fail("Unauthorized")
    ELSE TransferFrom(st, from, to, value, time)
\* TransferFrom invoked with a ctx whose clientIdentity is caller: neither the
\* method nor setFromTransactionData, setToTransactionData, CheckInitialized,
\* add and sub, which it calls, read ctx.clientIdentity
TransferFromAs(st, caller, from, to, value, time) ==
    TransferFrom(st, from, to, value, time)

(***************************************************************************)
(* Supply Controller.  Mint and Burn call add / sub without awaiting them: *)
(* updatedBalance and totalSupply are promises, and it is the promise that *)
(* is converted to a string and stored.  A rejection of such a promise is  *)
(* not observed by the method.                                             *)
(***************************************************************************)
\* mutation: the event of Burn, copied to Mint
MintEventReversed(minter, amountInt) ==
    [from |-> minter, to |-> NullAddress, value |-> amountInt]
\* const transferEvent = { from: '0x0', to: minter, value: amountInt }
MintEvent(minter, amountInt) ==
    [from |-> NullAddress, to |-> minter, value |-> amountInt]

\* const transferEvent = { from: minter, to: '0x0', value: amountInt }
BurnEvent(minter, amountInt) ==
    [from |-> minter, to |-> NullAddress, value |-> amountInt]

Mint(st, caller, amount) ==
    IF ~Initialized(st) THEN Fail("NotInitialized")
    ELSE IF NotAuthorized(caller.msp) THEN Fail("Unauthorized")
    ELSE
    LET minter == caller.id
        amountInt == parseInt(amount)
    IN
    IF JsLe(amountInt, Num(0)) THEN Fail("InvalidAmount")
    ELSE
    LET currentBalanceBytes == st.balance[minter]
        currentBalance == IF Absent(currentBalanceBytes) THEN Num(0)
                          ELSE parseInt(currentBalanceBytes)
        updatedBalance == add(currentBalance, amountInt)
        st1 == PutBalance(st, minter, PromiseToString(updatedBalance))
        totalSupplyBytes == st1.totalSupply
        totalSupply0 == IF Absent(totalSupplyBytes) THEN Num(0)
                        ELSE parseInt(totalSupplyBytes)
        totalSupply == add(totalSupply0, amountInt)
        st2 == [st1 EXCEPT !.totalSupply = PromiseToString(totalSupply)]
        transferEvent == MintEvent(minter, amountInt)
    IN  Ok(st2, True, <<transferEvent>>)

Burn(st, caller, amount) ==
    IF ~Initialized(st) THEN Fail("NotInitialized")
    ELSE IF NotAuthorized(caller.msp) THEN Fail("Unauthorized")
    ELSE
    LET minter == caller.id
        amountInt == parseInt(amount)
        currentBalanceBytes == st.balance[minter]
    IN
    IF Absent(currentBalanceBytes) THEN Fail("AccountNotFound")
    ELSE
    LET currentBalance == parseInt(currentBalanceBytes)
        updatedBalance == sub(currentBalance, amountInt)
        st1 == PutBalance(st, minter, PromiseToString(updatedBalance))
        totalSupplyBytes == st1.totalSupply
    IN
    IF Absent(totalSupplyBytes) THEN Fail("SupplyNotFound")
    ELSE
    LET totalSupply == sub(parseInt(totalSupplyBytes), amountInt)
        st2 == [st1 EXCEPT !.totalSupply = PromiseToString(totalSupply)]
        transferEvent == BurnEvent(minter, amountInt)
    IN  Ok(st2, True, <<transferEvent>>)

(***************************************************************************)
(* Storage calls.  For each method, the sequence of ctx.stub.getState and  *)
(* ctx.stub.putState calls one invocation makes, in program order, up to   *)
(* the throw that ends it.  A key is the pair of its prefix and the        *)
(* attribute of createCompositeKey (none for the four metadata keys).      *)
(***************************************************************************)
nameKey == [prefix |-> "name", attr |-> <<>>]
symbolKey == [prefix |-> "symbol", attr |-> <<>>]
decimalsKey == [prefix |-> "decimals", attr |-> <<>>]
totalSupplyKey == [prefix |-> "totalSupply", attr |-> <<>>]
\* ctx.stub.createCompositeKey(balancePrefix, [addr])
balanceKey(addr) == [prefix |-> "balance", attr |-> addr]
\* ctx.stub.createCompositeKey(transactionDataPrefix, [addr])
transactionDataKey(addr) == [prefix |-> "transactionData", attr |-> addr]

getState(key) == [call |-> "getState", key |-> key]
putState(key) == [call |-> "putState", key |-> key]

CheckInitializedCalls == <<getState(nameKey)>>

setFromTransactionDataCalls(st, from, to) ==
    CheckInitializedCalls \o
    IF ~Initialized(st) THEN <<>>
    ELSE <<getState(transactionDataKey(from)), putState(transactionDataKey(from))>>

\* mutation: the destination's record written under the source's key
setToTransactionDataCallsOnFrom(st, from, to) ==
    CheckInitializedCalls \o
    IF ~Initialized(st) THEN <<>>
    ELSE <<getState(transactionDataKey(from)), putState(transactionDataKey(from))>>
setToTransactionDataCalls(st, from, to) ==
    CheckInitializedCalls \o
    IF ~Initialized(st) THEN <<>>
    ELSE <<getState(transactionDataKey(to)), putState(transactionDataKey(to))>>

setAdminTransactionDataCalls(st, to) ==
    CheckInitializedCalls \o
    IF ~Initialized(st) THEN <<>>
    ELSE <<getState(transactionDataKey(to)), putState(transactionDataKey(to))>>

getTransactionDataCalls(st, userAddress) ==
    CheckInitializedCalls \o
    IF ~Initialized(st) THEN <<>>
    ELSE <<getState(transactionDataKey(userAddress))>>

signupCalls(st, userAddress) ==
    CheckInitializedCalls \o
    IF ~Initialized(st) THEN <<>>
    ELSE <<getState(balanceKey(userAddress)), putState(balanceKey(userAddress))>>

BalanceOfCalls(st, owner) ==
    CheckInitializedCalls \o
    IF ~Initialized(st) THEN <<>> ELSE <<getState(balanceKey(owner))>>

ClientAccountBalanceCalls(st, caller) ==
    CheckInitializedCalls \o
    IF ~Initialized(st) THEN <<>> ELSE <<getState(balanceKey(caller.id))>>

ClientAccountIDCalls(st, caller) == CheckInitializedCalls

InitializeCalls(st, caller) ==
    IF NotAuthorized(caller.msp) THEN <<>>
    ELSE <<getState(nameKey)>> \o
         IF Len(st.name) > 0 THEN <<>>
         ELSE <<putState(nameKey), putState(symbolKey), putState(decimalsKey)>>

TokenNameCalls(st) ==
    CheckInitializedCalls \o
    IF ~Initialized(st) THEN <<>> ELSE <<getState(nameKey)>>

SymbolCalls(st) ==
    CheckInitializedCalls \o
    IF ~Initialized(st) THEN <<>> ELSE <<getState(symbolKey)>>

DecimalsCalls(st) ==
    CheckInitializedCalls \o
    IF ~Initialized(st) THEN <<>> ELSE <<getState(decimalsKey)>>

TotalSupplyCalls(st) ==
    CheckInitializedCalls \o
    IF ~Initialized(st) THEN <<>> ELSE <<getState(totalSupplyKey)>>

TransferCalls(st, caller, to, value) ==
    LET clientAccountID == caller.id
        valueInt == parseInt(value)
        fromCurrentBalance == parseInt(st.balance[clientAccountID])
        toCurrentBalance == parseInt(st.balance[to])
    IN
    CheckInitializedCalls \o
    IF ~Initialized(st) \/ NegativeAmount(valueInt) THEN <<>>
    ELSE
    <<getState(balanceKey(clientAccountID))>> \o
    IF \/ Absent(st.balance[clientAccountID])
       \/ InsufficientFunds(fromCurrentBalance, valueInt) THEN <<>>
    ELSE
    <<getState(balanceKey(to))>> \o
    IF \/ NoSignup(st.balance[to])
       \/ Rejected(sub(fromCurrentBalance, valueInt))
       \/ Rejected(add(toCurrentBalance, valueInt)) THEN <<>>
    ELSE
    <<putState(balanceKey(clientAccountID)), putState(balanceKey(to))>> \o
    \* setAdminTransactionData(ctx, clientAccountID, to, value)
    setAdminTransactionDataCalls(st, clientAccountID)

TransferFromCalls(st, from, to, value) ==
    LET valueInt == parseInt(value)
        fromCurrentBalance == parseInt(st.balance[from])
        toCurrentBalance == parseInt(st.balance[to])
    IN
    IF SameAccount(from, to) \/ NegativeAmount(valueInt) THEN <<>>
    ELSE
    <<getState(balanceKey(from))>> \o
    IF \/ Absent(st.balance[from])
       \/ InsufficientFunds(fromCurrentBalance, valueInt) THEN <<>>
    ELSE
    <<getState(balanceKey(to))>> \o
    IF \/ NoSignup(st.balance[to])
       \/ Rejected(sub(fromCurrentBalance, valueInt))
       \/ Rejected(add(toCurrentBalance, valueInt)) THEN <<>>
    ELSE
    <<putState(balanceKey(from)), putState(balanceKey(to))>> \o
    setFromTransactionDataCalls(st, from, to) \o
    IF ~Initialized(st) THEN <<>> ELSE setToTransactionDataCalls(st, from, to)

MintCalls(st, caller, amount) ==
    CheckInitializedCalls \o
    IF \/ ~Initialized(st)
       \/ NotAuthorized(caller.msp)
       \/ JsLe(parseInt(amount), Num(0)) THEN <<>>
    ELSE <<getState(balanceKey(caller.id)), putState(balanceKey(caller.id)),
           getState(totalSupplyKey), putState(totalSupplyKey)>>

BurnCalls(st, caller, amount) ==
    CheckInitializedCalls \o
    IF ~Initialized(st) \/ NotAuthorized(caller.msp) THEN <<>>
    ELSE
    <<getState(balanceKey(caller.id))>> \o
    IF Absent(st.balance[caller.id]) THEN <<>>
    ELSE
    <<putState(balanceKey(caller.id)), getState(totalSupplyKey)>> \o
    IF Absent(st.totalSupply) THEN <<>> ELSE <<putState(totalSupplyKey)>>

\* the calls of the invocation of method op by caller with arguments args
StorageCalls(st, op, caller, args) ==
    CASE op = "Initialize" -> InitializeCalls(st, caller)
      [] op = "signup" -> signupCalls(st, args[1])
      [] op = "Mint" -> MintCalls(st, caller, args[1])
      [] op = "Burn" -> BurnCalls(st, caller, args[1])
      [] op = "Transfer" -> TransferCalls(st, caller, args[1], args[2])
      [] op = "TransferFrom" -> TransferFromCalls(st, args[1], args[2], args[3])
      [] op = "BalanceOf" -> BalanceOfCalls(st, args[1])
      [] op = "ClientAccountBalance" -> ClientAccountBalanceCalls(st, caller)
      [] op = "ClientAccountID" -> ClientAccountIDCalls(st, caller)
      [] op = "TokenName" -> TokenNameCalls(st)
      [] op = "Symbol" -> SymbolCalls(st)
      [] op = "Decimals" -> DecimalsCalls(st)
      [] op = "TotalSupply" -> TotalSupplyCalls(st)
      [] op = "getTransactionData" -> getTransactionDataCalls(st, args[1])

(***************************************************************************)
(* Invocations.  The host commits the writes of an invocation that returns *)
(* and discards those of one that throws.  `last` records the invocation.  *)
(***************************************************************************)
RECURSIVE HistTotal(_, _)
HistTotal(st, S) ==
    IF S = {} THEN 0
    ELSE LET a == CHOOSE x \in S : TRUE
         IN  Len(st.transactionData[a]) + HistTotal(st, S \ {a})

HistBounded(st) == HistTotal(st, Accounts) <= MaxHist

\* recorded as the caller of the methods that do not read ctx.clientIdentity
NoCaller == [id |-> <<>>, msp |-> <<>>]

Invoke(op, caller, args, o) ==
    /\ o.err = "" => HistBounded(o.st)
    /\ store' = IF o.err = "" THEN o.st ELSE store
    /\ last' = [op |-> op, caller |-> caller, args |-> args,
                err |-> o.err, ret |-> o.ret, ev |-> o.ev]

Init ==
    /\ store = EmptyStore
    /\ last = [op |-> "none", caller |-> NoCaller, args |-> <<>>,
               err |-> "", ret |-> <<>>, ev |-> NoEvent]

DoInitialize ==
    \E c \in Callers, n \in Names, s \in Symbols, d \in DecimalsArgs :
        Invoke("Initialize", c, <<n, s, d>>, Initialize(store, c, n, s, d))

DoSignup ==
    \E a \in Accounts :
        Invoke("signup", NoCaller, <<a>>, signup(store, a))

DoMint ==
    \E c \in Callers, amt \in Amounts :
        Invoke("Mint", c, <<amt>>, Mint(store, c, amt))

DoBurn ==
    \E c \in Callers, amt \in Amounts :
        Invoke("Burn", c, <<amt>>, Burn(store, c, amt))

DoTransfer ==
    \E c \in Callers, to \in Accounts, v \in Amounts, t \in Times :
        Invoke("Transfer", c, <<to, v>>, Transfer(store, c, to, v, t))

DoTransferFrom ==
    \E from \in Accounts, to \in Accounts, v \in Amounts, t \in Times :
        Invoke("TransferFrom", NoCaller, <<from, to, v>>,
               TransferFrom(store, from, to, v, t))

DoBalanceOf ==
    \E a \in Accounts :
        Invoke("BalanceOf", NoCaller, <<a>>, BalanceOf(store, a))

DoClientAccountBalance ==
    \E c \in Callers : Invoke("ClientAccountBalance", c, <<>>, ClientAccountBalance(store, c))

DoClientAccountID ==
    \E c \in Callers : Invoke("ClientAccountID", c, <<>>, ClientAccountID(store, c))

DoTokenName ==
    Invoke("TokenName", NoCaller, <<>>, TokenName(store))

DoSymbol ==
    Invoke("Symbol", NoCaller, <<>>, Symbol(store))

DoDecimals ==
    Invoke("Decimals", NoCaller, <<>>, Decimals(store))

DoTotalSupply ==
    Invoke("TotalSupply", NoCaller, <<>>, TotalSupply(store))

DoGetTransactionData ==
    \E a \in Accounts :
        Invoke("getTransactionData", NoCaller, <<a>>, getTransactionData(store, a))

Next ==
    \/ DoInitialize
    \/ DoSignup
    \/ DoMint
    \/ DoBurn
    \/ DoTransfer
    \/ DoTransferFrom
    \/ DoBalanceOf
    \/ DoClientAccountBalance
    \/ DoClientAccountID
    \/ DoTokenName
    \/ DoSymbol
    \/ DoDecimals
    \/ DoTotalSupply
    \/ DoGetTransactionData

Spec == Init /\ [][Next]_vars

(***************************************************************************)
(* SpecHistory: the methods that write the store and getTransactionData,   *)
(* with longer histories and fewer argument values.                        *)
(***************************************************************************)
HistAmounts == {<<"0">>}

InvokeLong(op, caller, args, o) ==
    /\ o.err = "" => HistTotal(o.st, Accounts) <= MaxLongHist
    /\ store' = IF o.err = "" THEN o.st ELSE store
    /\ last' = [op |-> op, caller |-> caller, args |-> args,
                err |-> o.err, ret |-> o.ret, ev |-> o.ev]

HInitialize ==
    \E c \in Callers :
        InvokeLong("Initialize", c, <<<<"T">>, <<"S">>, <<"2">>>>,
                   Initialize(store, c, <<"T">>, <<"S">>, <<"2">>))

HSignup ==
    \E a \in Accounts :
        InvokeLong("signup", NoCaller, <<a>>, signup(store, a))

HTransfer ==
    \E c \in Callers, to \in Accounts, v \in HistAmounts, t \in Times :
        InvokeLong("Transfer", c, <<to, v>>, Transfer(store, c, to, v, t))

HTransferFrom ==
    \E from \in Accounts, to \in Accounts, v \in HistAmounts, t \in Times :
        InvokeLong("TransferFrom", NoCaller, <<from, to, v>>,
                   TransferFrom(store, from, to, v, t))

HMint ==
    \E c \in Callers :
        InvokeLong("Mint", c, <<<<"1">>>>, Mint(store, c, <<"1">>))

HBurn ==
    \E c \in Callers :
        InvokeLong("Burn", c, <<<<"1">>>>, Burn(store, c, <<"1">>))

HGetTransactionData ==
    \E a \in Accounts :
        InvokeLong("getTransactionData", NoCaller, <<a>>, getTransactionData(store, a))

HistNext ==
    \/ HInitialize
    \/ HSignup
    \/ HTransfer
    \/ HTransferFrom
    \/ HMint
    \/ HBurn
    \/ HGetTransactionData

SpecHistory == Init /\ [][HistNext]_vars

(***************************************************************************)
(* SpecCaller: TransferFrom with the identity of its caller recorded, on   *)
(* the stores that Initialize, signup and Mint build.                      *)
(***************************************************************************)
CallerTransferFrom ==
    \E c \in Callers, from \in Accounts, to \in Accounts, v \in Amounts, t \in Times :
        Invoke("TransferFrom", c, <<from, to, v>>,
               TransferFromAs(store, c, from, to, v, t))

CallerNext ==
    \/ DoInitialize
    \/ DoSignup
    \/ DoMint
    \/ CallerTransferFrom

SpecCaller == Init /\ [][CallerNext]_vars

(***************************************************************************)
(* Vocabulary of the properties                                            *)
(***************************************************************************)
HasBalance(st, a) == ~Absent(st.balance[a])
BalanceValue(st, a) == parseInt(st.balance[a])
SupplyValue(st) == IF Absent(st.totalSupply) THEN Num(0) ELSE parseInt(st.totalSupply)
Metadata(st) == <<st.name, st.symbol, st.decimals>>

\* sum of the stored balances of the accounts of S
RECURSIVE BalanceSum(_, _)
BalanceSum(st, S) ==
    IF S = {} THEN Num(0)
    ELSE LET a == CHOOSE x \in S : TRUE
             rest == BalanceSum(st, S \ {a})
         IN  IF HasBalance(st, a) THEN JsAdd(BalanceValue(st, a), rest) ELSE rest

\* the invocation recorded in l is a transfer; its source, destination, amount
IsTransfer(l) == l.op \in {"Transfer", "TransferFrom"}
TxSrc(l) == IF l.op = "Transfer" THEN l.caller.id ELSE l.args[1]
TxDst(l) == IF l.op = "Transfer" THEN l.args[1] ELSE l.args[2]
TxAmount(l) == IF l.op = "Transfer" THEN parseInt(l.args[2]) ELSE parseInt(l.args[3])

(***************************************************************************)
(* C1  Conservation: in every reachable state the stored TotalSupply (0 if *)
(* absent) is an integer equal to the sum of all stored balances.          *)
(***************************************************************************)
C1_Conservation ==
    LET supply == SupplyValue(store)
        total == BalanceSum(store, Accounts)
    IN  ~supply.nan /\ ~total.nan /\ supply.v = total.v

(***************************************************************************)
(* C2  No negative balances: in every reachable state every stored balance *)
(* and the stored TotalSupply are non-negative integers.                   *)
(***************************************************************************)
C2_NonNegative ==
    /\ \A a \in Accounts :
           HasBalance(store, a) => JsLe(Num(0), BalanceValue(store, a))
    /\ ~Absent(store.totalSupply) => JsLe(Num(0), parseInt(store.totalSupply))

C4_MintAccumulates ==
    [][(/\ last'.op = "Mint"
        /\ Initialized(store)
        /\ last'.caller.msp = Org1MSP
        /\ JsLt(Num(0), parseInt(last'.args[1]))
        /\ HasBalance(store, last'.caller.id) => ~BalanceValue(store, last'.caller.id).nan
        /\ ~SupplyValue(store).nan) =>
        LET minter == last'.caller.id
            amount == parseInt(last'.args[1])
            b == IF HasBalance(store, minter) THEN BalanceValue(store, minter) ELSE Num(0)
        IN  /\ last'.err = ""
            /\ BalanceOf(store', minter).err = ""
            /\ BalanceOf(store', minter).ret = Num(b.v + amount.v)
            /\ TotalSupply(store').ret = Num(SupplyValue(store).v + amount.v)
      ]_vars

(***************************************************************************)
(* C5  Insufficient funds: in an initialized contract a transfer (from #   *)
(* to for TransferFrom) of a non-negative amount greater than the integer  *)
(* balance of the source fails with InsufficientFunds, whether or not the  *)
(* destination is signed up, and leaves the store unchanged.               *)
(***************************************************************************)
C5_InsufficientFunds ==
    [][(/\ IsTransfer(last')
        /\ Initialized(store)
        /\ TxSrc(last') # TxDst(last') \/ last'.op = "Transfer"
        /\ JsLe(Num(0), TxAmount(last'))
        /\ HasBalance(store, TxSrc(last'))
        /\ ~BalanceValue(store, TxSrc(last')).nan
        /\ BalanceValue(store, TxSrc(last')).v < TxAmount(last').v) =>
        /\ last'.err = "InsufficientFunds"
        /\ store' = store
      ]_vars

\* a TransferFrom to an account that is not signed up failed for lack of funds
C5_Witness ==
    /\ last.op = "TransferFrom" /\ last.err = "InsufficientFunds"
    /\ ~HasBalance(store, last.args[2])

C7_NegativeAmount ==
    [][(/\ IsTransfer(last')
        /\ Initialized(store)
        /\ TxSrc(last') # TxDst(last') \/ last'.op = "Transfer"
        /\ ~TxAmount(last').nan
        /\ TxAmount(last').v < 0) =>
        /\ last'.err = "InvalidAmount"
        /\ store' = store
      ]_vars

\* a negative transfer between two signed-up accounts was rejected
C7_Witness ==
    /\ IsTransfer(last) /\ last.err = "InvalidAmount"
    /\ HasBalance(store, TxSrc(last))
    /\ HasBalance(store, TxDst(last))
    /\ TxSrc(last) # TxDst(last)

(***************************************************************************)
(* C8  Zero-value transfer: in an initialized contract where source and    *)
(* destination both have Balance records (from # to for TransferFrom), a   *)
(* transfer of value 0 succeeds, leaves every balance and TotalSupply      *)
(* unchanged and appends a history record.                                 *)
(***************************************************************************)
C8_ZeroTransfer ==
    [][(/\ IsTransfer(last')
        /\ Initialized(store)
        /\ TxSrc(last') # TxDst(last') \/ last'.op = "Transfer"
        /\ TxAmount(last') = Num(0)
        /\ HasBalance(store, TxSrc(last'))
        /\ HasBalance(store, TxDst(last'))) =>
        /\ last'.err = ""
        /\ store'.balance = store.balance
        /\ store'.totalSupply = store.totalSupply
        /\ HistTotal(store', Accounts) > HistTotal(store, Accounts)
      ]_vars

(***************************************************************************)
(* C9  Self-transfer rejection: TransferFrom with from = to fails with     *)
(* SelfTransferRejected for every value in every state, initialized or     *)
(* not, whether or not the account exists, and changes no state.           *)
(***************************************************************************)
C9_SelfTransferRejected ==
    [][(last'.op = "TransferFrom" /\ last'.args[1] = last'.args[2]) =>
        /\ last'.err = "SelfTransferRejected"
        /\ store' = store
      ]_vars

\* a zero-value TransferFrom from a signed-up account to itself was rejected
C9_Witness ==
    /\ last.op = "TransferFrom" /\ last.err = "SelfTransferRejected"
    /\ HasBalance(store, last.args[1])
    /\ parseInt(last.args[3]) = Num(0)

(***************************************************************************)
(* C10  At-most-once initialization: an Initialize that follows a          *)
(* successful Initialize fails, and the stored name, symbol and decimals   *)
(* keep the values of the successful call; no other operation writes them. *)
(***************************************************************************)
C10_InitializeOnce ==
    [][/\ (last.op = "Initialize" /\ last.err = "" /\ last'.op = "Initialize") =>
            /\ last'.err # ""
            /\ Metadata(store') = Metadata(store)
       /\ last'.op # "Initialize" => Metadata(store') = Metadata(store)
      ]_vars

(***************************************************************************)
(* C11  Admin-only privileged operations: Initialize in any state, and     *)
(* Mint and Burn in an initialized contract, invoked by a caller of        *)
(* another organisation than Org1MSP fail with Unauthorized for every      *)
(* argument and leave the store unchanged; TotalSupply and the metadata    *)
(* change only in invocations made by a caller of Org1MSP.                 *)
(***************************************************************************)
C11_AdminOnly ==
    [][/\ (/\ last'.op \in {"Initialize", "Mint", "Burn"}
           /\ last'.op = "Initialize" \/ Initialized(store)
           /\ last'.caller.msp # Org1MSP) =>
              /\ last'.err = "Unauthorized"
              /\ store' = store
       /\ (store'.totalSupply # store.totalSupply \/ Metadata(store') # Metadata(store)) =>
              last'.caller.msp = Org1MSP
      ]_vars

\* a Burn by a caller of another organisation, who has a Balance record, was refused
C11_Witness ==
    /\ last.op = "Burn" /\ last.err = "Unauthorized"
    /\ HasBalance(store, last.caller.id)
    /\ ~Absent(store.totalSupply)

(***************************************************************************)
(* C12  Initialization gate: while the contract is not initialized every   *)
(* public operation other than Initialize fails with NotInitialized, for   *)
(* every caller and argument, and changes no state.                        *)
(***************************************************************************)
C12_InitializationGate ==
    [][(~Initialized(store) /\ last'.op # "Initialize") =>
        /\ last'.err = "NotInitialized"
        /\ store' = store
      ]_vars

(***************************************************************************)
(* C13  History is append-only and ordered: every operation leaves each    *)
(* account's stored history a prefix of its new history; in an initialized *)
(* contract getTransactionData(address) returns the stored sequence,       *)
(* oldest first and of the stored length, without changing state, and      *)
(* fails with NoHistory when the address has no sequence.                  *)
(***************************************************************************)
IsPrefix(s, t) == Len(s) <= Len(t) /\ SubSeq(t, 1, Len(s)) = s

C13_HistoryAppendOnly ==
    [][/\ \A a \in Accounts :
              IsPrefix(store.transactionData[a], store'.transactionData[a])
       /\ (last'.op = "getTransactionData" /\ Initialized(store)) =>
              LET stored == store.transactionData[last'.args[1]]
              IN  /\ store' = store
                  /\ Len(stored) = 0 => last'.err = "NoHistory"
                  /\ Len(stored) > 0 =>
                         /\ last'.err = ""
                         /\ last'.ret = stored
                         /\ Len(last'.ret) = Len(stored)
      ]_vars

\* getTransactionData returned three records, the first written by Transfer,
\* the last by TransferFrom
C13_Witness ==
    /\ last.op = "getTransactionData" /\ last.err = ""
    /\ Len(last.ret) = 3
    /\ last.ret[1].from = admin
    /\ last.ret[3].from # admin

(***************************************************************************)
(* C14  History of the single-party Transfer: a successful                 *)
(* Transfer(to, value) appends exactly one record, with from = admin,      *)
(* to = the destination and value = the transferred value, to the history  *)
(* of the destination, and changes no other account's history.             *)
(***************************************************************************)
C14_TransferHistory ==
    [][(last'.op = "Transfer" /\ last'.err = "") =>
        LET to == last'.args[1]
            value == last'.args[2]
        IN  /\ \E t \in Times :
                   store'.transactionData[to] =
                       Append(store.transactionData[to],
                              [from |-> admin, to |-> to, value |-> value,
                               time |-> TxTime(t)])
            /\ \A a \in Accounts \ {to} :
                   store'.transactionData[a] = store.transactionData[a]
      ]_vars

(***************************************************************************)
(* C15  History of TransferFrom: a successful TransferFrom(from, to,       *)
(* value) appends exactly one record {from, to, value, time} to the end of *)
(* the history of the source and the same record to the end of the history *)
(* of the destination, and changes no other account's history.             *)
(***************************************************************************)
C15_TransferFromHistory ==
    [][(last'.op = "TransferFrom" /\ last'.err = "") =>
        LET from == last'.args[1]
            to == last'.args[2]
            value == last'.args[3]
        IN  /\ \E t \in Times :
                   LET rec == [from |-> from, to |-> to, value |-> value,
                               time |-> TxTime(t)]
                   IN  /\ store'.transactionData[from] =
                              Append(store.transactionData[from], rec)
                       /\ store'.transactionData[to] =
                              Append(store.transactionData[to], rec)
            /\ \A a \in Accounts \ {from, to} :
                   store'.transactionData[a] = store.transactionData[a]
      ]_vars

\* after two successful TransferFrom calls and no other transfer, an account
\* that took part in both as the source holds their two records in call order
C15_Witness ==
    /\ last.op = "TransferFrom" /\ last.err = ""
    /\ LET h == store.transactionData[last.args[1]]
       IN  /\ Len(h) = 2
           /\ h[1].from = last.args[1] /\ h[1].to # last.args[2]
           /\ h[2].from = last.args[1] /\ h[2].to = last.args[2]
    /\ HistTotal(store, Accounts) = 4

(***************************************************************************)
(* C16  TotalSupply read before any mint: in an initialized contract with  *)
(* no TotalSupply record the TotalSupply() accessor fails with an error;   *)
(* it returns no value.                                                    *)
(***************************************************************************)
C16_TotalSupplyBeforeMint ==
    [][(/\ last'.op = "TotalSupply"
        /\ Initialized(store)
        /\ Absent(store.totalSupply)) =>
        last'.err # ""
      ]_vars

(***************************************************************************)
(* C17  signup is idempotent and balance-preserving: in an initialized     *)
(* contract signup(address) succeeds; an address without Balance record    *)
(* gets one with value 0, the stored balance of an address that has one is *)
(* the same after the call as before, and no other key changes.            *)
(***************************************************************************)
C17_SignupPreserves ==
    [][(last'.op = "signup" /\ Initialized(store)) =>
        LET address == last'.args[1]
        IN  /\ last'.err = ""
            /\ ~HasBalance(store, address) =>
                   store' = PutBalance(store, address, <<"0">>)
            /\ HasBalance(store, address) => store' = store
      ]_vars

(***************************************************************************)
(* C18  Mint/Burn notification events: a successful Mint(amount) emits     *)
(* exactly one Transfer event {from: '0x0', to: minter, value: amount}, a  *)
(* successful Burn(amount) exactly one {from: minter, to: '0x0', value:    *)
(* amount}; a failed invocation and every other operation emit none.       *)
(***************************************************************************)
C18_MintBurnEvents ==
    [][/\ (last'.op = "Mint" /\ last'.err = "") =>
              last'.ev = <<[from |-> NullAddress, to |-> last'.caller.id,
                            value |-> parseInt(last'.args[1])]>>
       /\ (last'.op = "Burn" /\ last'.err = "") =>
              last'.ev = <<[from |-> last'.caller.id, to |-> NullAddress,
                            value |-> parseInt(last'.args[1])]>>
       /\ (last'.err # "" \/ last'.op \notin {"Mint", "Burn"}) => last'.ev = <<>>
      ]_vars

\* a Mint of 1 succeeded and set its event
C18_Witness ==
    /\ last.op = "Mint" /\ last.err = ""
    /\ Len(last.ev) = 1
    /\ last.ev[1].value = Num(1)

(***************************************************************************)
(* C19  Effect of Burn: in an initialized contract where the administrator *)
(* caller has a Balance record b and TotalSupply s exists, a successful    *)
(* Burn(amount) leaves the stored balance equal to b - amount and the      *)
(* stored TotalSupply equal to s - amount and changes no other balance, no *)
(* history and no metadata; without Balance record it fails with           *)
(* AccountNotFound, without TotalSupply with SupplyNotFound, and both      *)
(* failures leave the balance unchanged.                                   *)
(***************************************************************************)
C19_BurnEffect ==
    [][(/\ last'.op = "Burn"
        /\ Initialized(store)
        /\ last'.caller.msp = Org1MSP) =>
        LET minter == last'.caller.id
            amount == parseInt(last'.args[1])
        IN  /\ ~HasBalance(store, minter) =>
                   last'.err = "AccountNotFound" /\ store' = store
            /\ (HasBalance(store, minter) /\ Absent(store.totalSupply)) =>
                   last'.err = "SupplyNotFound" /\ store' = store
            /\ last'.err = "" =>
                   /\ ~JsStrictNeq(BalanceValue(store', minter),
                                   JsSub(BalanceValue(store, minter), amount))
                   /\ ~JsStrictNeq(parseInt(store'.totalSupply),
                                   JsSub(parseInt(store.totalSupply), amount))
                   /\ \A a \in Accounts \ {minter} :
                          store'.balance[a] = store.balance[a]
                   /\ store'.transactionData = store.transactionData
                   /\ Metadata(store') = Metadata(store)
      ]_vars

(***************************************************************************)
(* C20  Storage format: in every reachable state every value stored under  *)
(* a balance key and under the totalSupply key is the decimal string of an *)
(* integer, which the integer parser reads back.                           *)
(***************************************************************************)
IsDecimalString(bytes) ==
    /\ ~parseInt(bytes).nan
    /\ NumberToString(parseInt(bytes)) = bytes

C20_StorageFormat ==
    /\ \A a \in Accounts : HasBalance(store, a) => IsDecimalString(store.balance[a])
    /\ ~Absent(store.totalSupply) => IsDecimalString(store.totalSupply)

(***************************************************************************)
(* C21  Read-then-write ordering per key: in the invocation made by any    *)
(* step, whatever the method, the caller and the arguments, no getState of *)
(* a key follows a putState of that same key; Transfer to the caller's own *)
(* account and the two history writes of TransferFrom included.            *)
(***************************************************************************)
ReadsOwnWrite(calls) ==
    \E i \in 1..Len(calls) :
        /\ calls[i].call = "putState"
        /\ \E j \in (i + 1)..Len(calls) :
               /\ calls[j].call = "getState"
               /\ calls[j].key = calls[i].key

C21_ReadThenWrite ==
    [][\A calls \in {StorageCalls(store, last'.op, last'.caller, last'.args)} :
           ~ReadsOwnWrite(calls)]_vars

\* a Transfer to the caller's own account has succeeded (it read the balance
\* key twice, wrote it twice and then read and wrote the caller's history
\* key), on a history key that an earlier invocation had written
C21_Witness ==
    /\ last.op = "Transfer" /\ last.err = ""
    /\ last.args[1] = last.caller.id
    /\ Len(store.transactionData[last.caller.id]) >= 2

(***************************************************************************)
(* C22  TransferFrom is independent of the caller: on every TransferFrom   *)
(* step, invoking it with the same arguments on the same store as any two  *)
(* different callers (of different identity and organisation) gives the    *)
(* same error or success and the same resulting store, and the step taken  *)
(* has that outcome; no caller is refused for not being the source account *)
(* or the administrator.                                                   *)
(***************************************************************************)
Committed(st, o) == IF o.err = "" THEN o.st ELSE st

C22_CallerIndependent ==
    [][last'.op = "TransferFrom" =>
        \A t \in Times :
        \A outcomes \in {{TransferFromAs(store, c, last'.args[1], last'.args[2],
                                          last'.args[3], t) : c \in Callers}} :
        \A o1 \in outcomes :
            /\ last'.err = o1.err
            /\ store' = Committed(store, o1)
            /\ \A o2 \in outcomes :
                   /\ o2.err = o1.err
                   /\ Committed(store, o2) = Committed(store, o1)
      ]_vars

\* a TransferFrom has succeeded whose caller is neither the source account
\* nor in the administrator's organisation
C22_Witness ==
    /\ last.op = "TransferFrom" /\ last.err = ""
    /\ last.caller.id # last.args[1]
    /\ last.caller.msp # Org1MSP

====
